---- MODULE Spec2Model ----
(***************************************************************************)
(* Model of mbrole-converter (src/main.py): conversion of compound IDs     *)
(* between metabolomic databases through a shared InChIKey.                *)
(*                                                                         *)
(* One run of main() is modelled as a sequential process whose position is *)
(* pc.  The SQLite table, the command line and the file system are chosen  *)
(* in Init and stay fixed during the run.  The for-loop of convert() is    *)
(* unrolled into one step per query so that the per-identifier progress    *)
(* (pending, first query, second query, recorded) is observable.           *)
(*                                                                         *)
(* Input identifiers and arguments are restricted to texts without a       *)
(* double quote: the queries are built with str.format, so a text holding  *)
(* a quote changes the statement itself and is outside this model.         *)
(***************************************************************************)
EXTENDS Integers, Sequences, FiniteSets, TLC

\* ---------------------------------------------------------------- bounds
\* largest number of rows of the table
MaxRows == 2
\* largest number of lines of the input file
MaxLines == 2

\* ------------------------------------------------------------- universes
\* values of the id column
Ids == {"C1", "H1"}
\* values of the inchikey column
Keys == {"K1", "K2"}
\* values of the database column
Tags == {"KEGG", "HMDB"}
\* texts an input line can hold: two ids and the name of a column
InputIds == {"C1", "H1", "id"}
\* values of --output: the default and a path in a folder that does not exist
OutputPaths == {"/dev/stdout", "nodir/out.txt"}
\* values of --discarded_file: the default and a file path
DiscardedPaths == {".", "discarded.txt"}

\* the three columns the queries name (id, inchikey and the --field column)
Columns == {"id", "inchikey", "database"}

Rows == [id : Ids, inchikey : Keys, database : Tags]

RECURSIVE SeqsUpTo(_, _)
SeqsUpTo(S, n) ==
    IF n = 0 THEN {<<>>}
    ELSE LET shorter == SeqsUpTo(S, n - 1)
         IN  shorter \cup {Append(s, e) : s \in {t \in shorter : Len(t) = n - 1}, e \in S}

Range(s) == {s[i] : i \in 1..Len(s)}

VARIABLES
    rows,            \* the table, in the order SQLite returns its rows
    db_exists,       \* os.path.exists(database)
    table_exists,    \* table in sqlite_master
    field_exists,    \* field among the columns of the table
    target,          \* --id, the source to convert to (the sources are alike)
    input_exists,    \* os.path.exists(input_file)
    lines,           \* the lines of the input file
    output,          \* --output
    discarded_file,  \* --discarded_file
    refcounted,      \* the interpreter finalises an object when its last reference goes
    pc,              \* position of main()
    valid,           \* verdict of validation(): "unset", "pass", "fail"
    input_compounds, \* result of _parse_input_file
    todo,            \* identifiers the for-loop has not yet yielded
    cur,             \* loop variable metabolite
    inchikey,        \* local inchikey of convert
    founded_ids,     \* dict metabolite -> id
    unavailable_ids, \* set of metabolites not found
    st,              \* progress of every identifier
    log,             \* log records emitted so far
    conns,           \* sqlite3 connections that are open
    error,           \* uncaught exception that ended the run, or "none"
    exit_code,       \* exit status, -1 while running
    out_file,        \* content written to --output
    disc_file        \* content written to --discarded_file

env == <<rows, db_exists, table_exists, field_exists, target, input_exists,
         lines, output, discarded_file, refcounted>>
loopv == <<todo, cur, inchikey, founded_ids, unavailable_ids, st>>
vars == <<rows, db_exists, table_exists, field_exists, target, input_exists,
          lines, output, discarded_file, refcounted, pc, valid, input_compounds, todo, cur,
          inchikey, founded_ids, unavailable_ids, st, log, conns, error,
          exit_code, out_file, disc_file>>

\* ------------------------------------------------------------ SQL queries
\* col == "text" in SQLite: a double-quoted token that names a column of the
\* table is that column; otherwise it is the string literal.
SqlEq(row, col, text) ==
    IF text \in Columns THEN row[col] = row[text] ELSE row[col] = text

\* SQL_GET_INCHIKEY: SELECT inchikey from table where id == "metabolite"
GetInchikey(tbl, metabolite) ==
    SelectSeq(tbl, LAMBDA r : SqlEq(r, "id", metabolite))

\* SQL_GET_ID_WITH_INCHIKEY:
\* Select id from table where inchikey == "K" AND field == "id"
GetIdWithInchikey(tbl, key, tag) ==
    SelectSeq(tbl, LAMBDA r : SqlEq(r, "inchikey", key) /\ SqlEq(r, "database", tag))

\* SQL_SELECT_SOURCES: SELECT DISTINCT field FROM table
Sources(tbl) == {tbl[i].database : i \in 1..Len(tbl)}

\* -------------------------------------------------------------- file system
\* os.path.exists(os.path.dirname(output_file))
OutputDirExists(p) == p = "/dev/stdout"
\* open(file, "wt") succeeds
Openable(p) == p \in {"/dev/stdout", "discarded.txt"}

Ev(level, kind, subject) == <<level, kind, subject>>

\* --------------------------------------------------------------- validation
\* first failing hard check of validation(), or "none"
FailedCheck ==
    IF ~db_exists THEN "StorageNotFound"
    ELSE IF ~table_exists THEN "RelationNotFound"
    ELSE IF ~field_exists THEN "FieldNotFound"
    ELSE IF target \notin Sources(rows) THEN "TagNotFound"
    ELSE "none"

\* info records of the checks passed before the first failing one
PassedLog ==
    (IF db_exists THEN {Ev("info", "DatabaseFound", "validation")} ELSE {})
    \cup (IF table_exists THEN {Ev("info", "TableFound", "validation")} ELSE {})
    \cup (IF FailedCheck = "none" THEN {Ev("info", "SourceFound", "validation")} ELSE {})

\* log records of the two file checks, which log and go on
FileCheckLog ==
    (IF ~input_exists THEN {Ev("critical", "InputNotFound", "input")} ELSE {})
    \cup {Ev("info", "InputFound", "input")}
    \cup (IF ~OutputDirExists(output) THEN {Ev("critical", "OutputFolderNotFound", "output")} ELSE {})
    \cup {Ev("info", "OutputCanBeCreated", "output")}

\* the function returns and its local connection goes out of scope without
\* close(): it is closed then only if the interpreter finalises it at once
Released(name) == IF refcounted THEN conns \ {name} ELSE conns \cup {name}

Init ==
    /\ db_exists \in BOOLEAN
    /\ table_exists \in BOOLEAN
    /\ field_exists \in BOOLEAN
    /\ (~db_exists => ~table_exists)
    /\ (~table_exists => ~field_exists)
    /\ rows \in SeqsUpTo(Rows, MaxRows)
    /\ (~field_exists => rows = <<>>)
    /\ target = "HMDB"
    /\ input_exists \in BOOLEAN
    /\ lines \in SeqsUpTo(InputIds, MaxLines)
    /\ (~input_exists => lines = <<>>)
    /\ output \in OutputPaths
    /\ discarded_file \in DiscardedPaths
    /\ refcounted \in BOOLEAN
    /\ pc = "validation"
    /\ valid = "unset"
    /\ input_compounds = {}
    /\ todo = {}
    /\ cur = ""
    /\ inchikey = ""
    /\ founded_ids = <<>>
    /\ unavailable_ids = {}
    /\ st = [x \in InputIds |-> "Pending"]
    /\ log = {}
    /\ conns = {}
    /\ error = "none"
    /\ exit_code = -1
    /\ out_file = {}
    /\ disc_file = {}

\* a loop body that never stores the converted id
DictSet_Skip(d, k, v) == d

\* a loop body that rebinds the dict instead of adding the key
DictSet_Rebind(d, k, v) == [x \in {k} |-> v]

\* founded_ids[metabolite] = molecules
DictSet(d, k, v) == [x \in DOMAIN d \cup {k} |-> IF x = k THEN v ELSE d[x]]

\* an uncaught exception ends the process with status 1
Raise(exc) ==
    /\ pc' = "crashed"
    /\ error' = exc
    /\ exit_code' = 1

\* validation() and the branch of main() on its verdict
Validation ==
    /\ pc = "validation"
    /\ IF FailedCheck # "none"
       THEN /\ valid' = "fail"
            /\ log' = log \cup PassedLog
                            \cup {Ev("critical", FailedCheck, "validation"),
                                  Ev("info", "NotValidExiting", "main")}
            /\ pc' = "exited"
            /\ exit_code' = 1
       ELSE /\ valid' = "pass"
            /\ log' = log \cup PassedLog \cup FileCheckLog
                            \cup {Ev("info", "ValidationFinished", "validation")}
            /\ pc' = "parse"
            /\ exit_code' = exit_code
    /\ conns' = IF db_exists THEN Released("validation") ELSE conns
    /\ UNCHANGED <<env, input_compounds, loopv, error, out_file, disc_file>>

\* _parse_input_file(): the set of the lines of the file
ParseInput ==
    /\ pc = "parse"
    /\ IF ~input_exists
       THEN /\ Raise("FileNotFoundError")
            /\ UNCHANGED <<input_compounds, log>>
       ELSE /\ input_compounds' = Range(lines)
            /\ log' = log \cup {Ev("info", "ParsingFile", "input")}
            /\ pc' = "convert"
            /\ UNCHANGED <<error, exit_code>>
    /\ UNCHANGED <<env, valid, loopv, conns, out_file, disc_file>>

\* convert(), up to the for-loop: connection, empty dict and set
ConvertBegin ==
    /\ pc = "convert"
    /\ conns' = conns \cup {"convert"}
    /\ log' = log \cup {Ev("info", "Querying", "convert")}
    /\ founded_ids' = <<>>
    /\ unavailable_ids' = {}
    /\ todo' = input_compounds
    /\ pc' = "loop"
    /\ UNCHANGED <<env, valid, input_compounds, cur, inchikey, st, error,
                   exit_code, out_file, disc_file>>

\* the for-loop yields the next metabolite, in the order of the set
ForNext ==
    /\ pc = "loop"
    /\ \E x \in todo :
          /\ cur' = x
          /\ todo' = todo \ {x}
          /\ st' = [st EXCEPT ![x] = "Hop1Lookup"]
    /\ pc' = "hop1"
    /\ UNCHANGED <<env, valid, input_compounds, inchikey, founded_ids,
                   unavailable_ids, log, conns, error, exit_code, out_file, disc_file>>

\* first query of the loop body and its branch
Hop1 ==
    /\ pc = "hop1"
    /\ LET results == GetInchikey(rows, cur)
       IN  IF Len(results) = 0
           THEN /\ log' = log \cup {Ev("warning", "NotFound", cur)}
                /\ unavailable_ids' = unavailable_ids \cup {cur}
                /\ st' = [st EXCEPT ![cur] = "Unmatched"]
                /\ pc' = "loop"
                /\ UNCHANGED inchikey
           ELSE /\ inchikey' = results[1].inchikey
                /\ log' = log \cup {Ev("debug", "FoundInchikey", cur)}
                /\ st' = [st EXCEPT ![cur] = "Hop2Lookup"]
                /\ pc' = "hop2"
                /\ UNCHANGED unavailable_ids
    /\ UNCHANGED <<env, valid, input_compounds, todo, cur, founded_ids, conns,
                   error, exit_code, out_file, disc_file>>

\* second query: fetchall()[0][0] and the assignment to the dict
Hop2 ==
    /\ pc = "hop2"
    /\ LET molecules == GetIdWithInchikey(rows, inchikey, target)
       IN  IF Len(molecules) = 0
           THEN /\ Raise("IndexError")
                /\ UNCHANGED <<founded_ids, st>>
           ELSE /\ founded_ids' = DictSet(founded_ids, cur, molecules[1].id)
                /\ st' = [st EXCEPT ![cur] = "Matched"]
                /\ pc' = "loop"
                /\ UNCHANGED <<error, exit_code>>
    /\ UNCHANGED <<env, valid, input_compounds, todo, cur, inchikey,
                   unavailable_ids, log, conns, out_file, disc_file>>

\* the loop is exhausted: convert() returns the pair
ConvertReturn ==
    /\ pc = "loop"
    /\ todo = {}
    /\ conns' = Released("convert")
    /\ pc' = "report"
    /\ UNCHANGED <<env, valid, input_compounds, loopv, log, error, exit_code,
                   out_file, disc_file>>

\* the two summary lines of main(): counts divided by len(input_compounds)
Report ==
    /\ pc = "report"
    /\ IF Cardinality(input_compounds) = 0
       THEN /\ Raise("ZeroDivisionError")
            /\ UNCHANGED log
       ELSE /\ log' = log \cup {Ev("info", "Found", "main"), Ev("info", "NotFoundCount", "main")}
            /\ pc' = "save_output"
            /\ UNCHANGED <<error, exit_code>>
    /\ UNCHANGED <<env, valid, input_compounds, loopv, conns, out_file, disc_file>>

\* save_compounds(args.output, ..., set(converted.values()))
SaveOutput ==
    /\ pc = "save_output"
    /\ IF ~Openable(output)
       THEN /\ Raise("FileNotFoundError")
            /\ UNCHANGED out_file
       ELSE /\ out_file' = {founded_ids[x] : x \in DOMAIN founded_ids}
            /\ pc' = "save_discarded"
            /\ UNCHANGED <<error, exit_code>>
    /\ UNCHANGED <<env, valid, input_compounds, loopv, log, conns, disc_file>>

\* save_compounds(args.discarded_file, False, unavailable) and the end of main()
SaveDiscarded ==
    /\ pc = "save_discarded"
    /\ IF ~Openable(discarded_file)
       THEN /\ Raise("IsADirectoryError")
            /\ UNCHANGED disc_file
       ELSE /\ disc_file' = unavailable_ids
            /\ pc' = "done"
            /\ exit_code' = 0
            /\ UNCHANGED error
    /\ UNCHANGED <<env, valid, input_compounds, loopv, log, conns, out_file>>

Next ==
    \/ Validation
    \/ ParseInput
    \/ ConvertBegin
    \/ ForNext
    \/ Hop1
    \/ Hop2
    \/ ConvertReturn
    \/ Report
    \/ SaveOutput
    \/ SaveDiscarded

Spec == Init /\ [][Next]_vars

\* ----------------------------------------------------------- shared notions
\* convert() has returned its pair to main()
ConvertReturned ==
    \/ pc \in {"report", "save_output", "save_discarded", "done"}
    \/ pc = "crashed" /\ error # "IndexError" /\ input_exists

\* the run is over
RunEnded == pc \in {"done", "exited", "crashed"}

\* the distinct identifiers of the input file
Distinct == Range(lines)

\* the first query returns a row for x
Hop1Finds(x) == Len(GetInchikey(rows, x)) > 0
\* the key the first query yields for x: the one of the first row returned
Hop1Key(x) == GetInchikey(rows, x)[1].inchikey
\* positions of the rows that carry key k under the target source
TargetRows(k) == {i \in 1..Len(rows) : rows[i].inchikey = k /\ rows[i].database = target}
\* x has a key without any row in the target source
Hop2Miss(x) == Hop1Finds(x) /\ TargetRows(Hop1Key(x)) = {}
\* the second query was executed for x
Hop2Ran(x) ==
    \/ st[x] \in {"Matched", "Unmatched"} /\ Hop1Finds(x)
    \/ st[x] = "Hop2Lookup" /\ pc # "hop2"
\* the target ids recorded for x
MatchOf(x) == IF x \in DOMAIN founded_ids THEN {founded_ids[x]} ELSE {}
\* the rows whose id is the text x
RowsOf(x) == {i \in 1..Len(rows) : rows[i].id = x}
\* the rows of x disagree on the key
Ambiguous(x) == \E i, j \in RowsOf(x) : rows[i].inchikey # rows[j].inchikey
Least(S) == CHOOSE i \in S : \A j \in S : i <= j

\* ------------------------------------------------------------------- C1
\* C1: when convert() has returned, the keys of founded_ids together with
\* unavailable_ids are exactly the distinct identifiers of the input, and no
\* identifier is in both.
C1_Completeness ==
    ConvertReturned =>
        /\ DOMAIN founded_ids \cup unavailable_ids = Distinct
        /\ DOMAIN founded_ids \cap unavailable_ids = {}

\* a returned conversion that has both a converted and a discarded identifier
C1_Witness ==
    /\ pc = "report"
    /\ DOMAIN founded_ids # {}
    /\ unavailable_ids # {}

\* ------------------------------------------------------------------- C2
\* C2: an identifier whose first query finds a key but whose key has no row
\* in the target source ends in unavailable_ids, and the second query raises
\* no error.
C2_Hop2MissIsUnmatched ==
    \A x \in InputIds :
        (RowsOf(x) # {} /\ Hop2Miss(x) /\ Hop2Ran(x)) =>
            /\ x \in unavailable_ids
            /\ error # "IndexError"

\* ------------------------------------------------------------------- C3
\* C3: the value recorded for a converted identifier holds the id of every
\* row that carries its key under the target source.
C3_NonCollapse ==
    \A x \in DOMAIN founded_ids :
        RowsOf(x) # {} =>
            \A i \in TargetRows(Hop1Key(x)) : rows[i].id \in MatchOf(x)

\* ------------------------------------------------------------------- C4
\* C4: if any of the six checks fails, the verdict is negative, the run
\* never reaches input parsing or convert(), and the process exits non-zero.
AnyCheckFails ==
    \/ FailedCheck # "none"
    \/ ~input_exists
    \/ ~OutputDirExists(output)

C4_ValidationGate ==
    AnyCheckFails =>
        /\ valid # "pass"
        /\ pc \in {"validation", "exited"}
        /\ (RunEnded => exit_code > 0)

\* ------------------------------------------------------------------- C5
\* C5: whenever x is recorded as converted to y, the table holds a key K,
\* a row (x, K, any source) and a row (y, K, target).
C5_Soundness ==
    \A x \in DOMAIN founded_ids :
        \E i, j \in 1..Len(rows) :
            /\ rows[i].id = x
            /\ rows[j].id = founded_ids[x]
            /\ rows[j].inchikey = rows[i].inchikey
            /\ rows[j].database = target

\* ------------------------------------------------------------------- C6
\* C6: when the run ends, by return, negative verdict or failure, no
\* connection opened by validation() or convert() is still open.
C6_ConnectionsReleased == RunEnded => conns = {}

\* ------------------------------------------------------------------- C7
\* C7: a validated run over an input without identifiers yields an empty
\* dict and an empty set, and nothing is raised while it is resolved and
\* reported.
C7_EmptyInput ==
    (valid = "pass" /\ input_exists /\ lines = <<>>) =>
        /\ founded_ids = <<>>
        /\ unavailable_ids = {}
        /\ error \notin {"IndexError", "ZeroDivisionError"}

\* ------------------------------------------------------------------- C8
\* C8: the outcome of the run is a function of the table, the target and
\* the set of distinct identifiers: whatever order the loop takes them in,
\* it either returns the same dict and set or fails on the same condition.
ExpectedFounded ==
    [x \in {y \in Distinct : Hop1Finds(y)} |->
        rows[Least(TargetRows(Hop1Key(x)))].id]

C8_OrderIndependence ==
    /\ ConvertReturned =>
          /\ \A x \in Distinct : ~Hop2Miss(x)
          /\ founded_ids = ExpectedFounded
          /\ unavailable_ids = {x \in Distinct : ~Hop1Finds(x)}
    /\ error = "IndexError" => \E x \in Distinct : Hop2Miss(x)

\* a finished run over two identifiers, one converted and one discarded
C8_Witness ==
    /\ pc = "done"
    /\ Cardinality(input_compounds) = 2
    /\ Cardinality(DOMAIN founded_ids) = 1
    /\ Cardinality(unavailable_ids) = 1

\* ------------------------------------------------------------------- C9
\* C9: when the rows of an identifier disagree on the key, the key of the
\* first row is used and a log record reports the ambiguity for it.
C9_AmbiguityReported ==
    \A x \in InputIds :
        (Ambiguous(x) /\ st[x] \in {"Hop2Lookup", "Matched", "Unmatched"}) =>
            /\ (cur = x => inchikey = rows[Least(RowsOf(x))].inchikey)
            /\ \E e \in log : e[2] = "AmbiguousSource" /\ e[3] = x

\* ------------------------------------------------------------------ C10
\* C10: every identifier only moves forward through Pending, Hop1Lookup,
\* Hop2Lookup to Matched or Unmatched, the second query runs only after the
\* first found a key, its outcome depends on the table and itself alone, and
\* when a run that started converting ends every identifier is Matched or
\* Unmatched.
Forward(a, b) ==
    \/ a = b
    \/ a = "Pending" /\ b = "Hop1Lookup"
    \/ a = "Hop1Lookup" /\ b \in {"Unmatched", "Hop2Lookup"}
    \/ a = "Hop2Lookup" /\ b \in {"Unmatched", "Matched"}

C10_StateMachine ==
    /\ [][\A x \in InputIds : Forward(st[x], st'[x])]_vars
    /\ [](\A x \in InputIds :
            /\ st[x] = "Hop2Lookup" => Hop1Finds(x)
            /\ st[x] = "Unmatched" => (~Hop1Finds(x) \/ Hop2Miss(x))
            /\ st[x] = "Matched" => (Hop1Finds(x) /\ ~Hop2Miss(x)))
    /\ [](RunEnded => \A x \in input_compounds : st[x] \in {"Matched", "Unmatched"})
====
